---- MODULE Spec2Model ----
(* Prerequisite logic engine of the SFU course tracker:                    *)
(*   services/parser.py    PrerequisiteParser   (text -> boolean tree)     *)
(*   services/validator.py PrerequisiteValidator (tree x transcript,       *)
(*                         prerequisite graph and reachability queries)    *)
(* Python strings are TLA+ strings; s[i:j] is SubSeq(s, i+1, j).           *)
(* Requirement text is single-line: the whitespace characters of the model *)
(* are the blank and the tab.                                              *)
EXTENDS Integers, Sequences, FiniteSets, TLC

VARIABLES prereq_string,  \* the requirement text handed to the parser
          tree,           \* the parser's answer for it
          catalog,        \* courses table: course id -> prerequisites_logic
          transcript,     \* transcript of the last validation request
          result,         \* response of the last validation request
          graph,          \* self.graph of the current validator
          response,       \* what the current validator's last graph query returned
          sections,       \* sections table: section id -> seat counts
          watchers,       \* watchers table: the rows in the order of their ids
          alerts          \* the alerts sent by the last seat check

vars == <<prereq_string, tree, catalog, transcript, result, graph, response,
         sections, watchers, alerts>>

-----------------------------------------------------------------------------
(* Characters and elementary string functions                              *)

CharsOf(s) == {SubSeq(s, i, i) : i \in 1..Len(s)}

Whitespace == {" ", "\t"}
UpperChars == CharsOf("ABCDEFGHIJKLMNOPQRSTUVWXYZ")
LowerChars == CharsOf("abcdefghijklmnopqrstuvwxyz")
DigitChars == CharsOf("0123456789")
AlphaChars == UpperChars \cup LowerChars
WordChars  == AlphaChars \cup DigitChars \cup {"_"}

\* s[i] for a 0-based index i; "" outside the string (used only in tests
\* of the form s[i] \in class, where the index guard comes first in Python).
CharAt(s, i) == IF i >= 0 /\ i < Len(s) THEN SubSeq(s, i + 1, i + 1) ELSE ""

\* s[i:j] with 0 <= i, clipped at the end of the string as Python does.
Slice(s, i, j) ==
    LET hi == IF j > Len(s) THEN Len(s) ELSE j
    IN  IF i >= hi THEN "" ELSE SubSeq(s, i + 1, hi)

RECURSIVE lstrip(_)
lstrip(s) ==
    IF Len(s) > 0 /\ CharAt(s, 0) \in Whitespace
    THEN lstrip(Slice(s, 1, Len(s)))
    ELSE s

RECURSIVE rstrip(_)
rstrip(s) ==
    IF Len(s) > 0 /\ CharAt(s, Len(s) - 1) \in Whitespace
    THEN rstrip(Slice(s, 0, Len(s) - 1))
    ELSE s

\* str.strip()
strip(s) == lstrip(rstrip(s))

\* str.startswith / str.endswith
startswith(s, p) == Slice(s, 0, Len(p)) = p
endswith(s, p) == Len(s) >= Len(p) /\ Slice(s, Len(s) - Len(p), Len(s)) = p

\* regex \b at 0-based position i of s
WordBoundary(s, i) ==
    (CharAt(s, i - 1) \in WordChars) # (CharAt(s, i) \in WordChars)

\* Python None
None == [type |-> "NONE"]



-----------------------------------------------------------------------------
(* PrerequisiteParser._clean_string: the regular expressions, matched as   *)
(* Python's backtracking matcher does (leftmost match, greedy and lazy     *)
(* quantifiers), each as the end index of the match that starts at i, or   *)
(* -1 when no match starts there.                                          *)

UpperAlphabet == "ABCDEFGHIJKLMNOPQRSTUVWXYZ"
LowerAlphabet == "abcdefghijklmnopqrstuvwxyz"

LowerChar(c) ==
    IF c \in UpperChars
    THEN LET k == CHOOSE k \in 1..26 : SubSeq(UpperAlphabet, k, k) = c
         IN  SubSeq(LowerAlphabet, k, k)
    ELSE c

RECURSIVE lower(_)
lower(s) == IF s = "" THEN "" ELSE LowerChar(CharAt(s, 0)) \o lower(Slice(s, 1, Len(s)))

\* the literal lit (given in lower case) matches at i under re.IGNORECASE
IMatchAt(s, i, lit) == lower(Slice(s, i, i + Len(lit))) = lit

\* end of the run of whitespace starting at i (i itself when there is none)
RECURSIVE SkipSpace(_, _)
SkipSpace(s, i) == IF CharAt(s, i) \in Whitespace THEN SkipSpace(s, i + 1) ELSE i

\* .*?(?=\.|$) : the first index >= i that holds a period or is the end
RECURSIVE NextPeriodOrEnd(_, _)
NextPeriodOrEnd(s, i) ==
    IF i >= Len(s) \/ CharAt(s, i) = "." THEN i ELSE NextPeriodOrEnd(s, i + 1)

\* .*?lit : the first index >= i where lit matches, -1 if none
RECURSIVE IFind(_, _, _)
IFind(s, i, lit) ==
    IF i + Len(lit) > Len(s) THEN -1
    ELSE IF IMatchAt(s, i, lit) THEN i ELSE IFind(s, i + 1, lit)

\* ^(Prerequisite|Corequisite|Pre-?req)s?:?\s*
PrefixTail(s, a) ==
    LET b == IF IMatchAt(s, a, "s") THEN a + 1 ELSE a
        c == IF CharAt(s, b) = ":" THEN b + 1 ELSE b
    IN  IF a = -1 THEN 0 ELSE SkipSpace(s, c)

PrefixEnd(s) ==
    PrefixTail(s, IF IMatchAt(s, 0, "prerequisite") THEN 12
                  ELSE IF IMatchAt(s, 0, "corequisite") THEN 11
                  ELSE IF IMatchAt(s, 0, "pre-req") THEN 7
                  ELSE IF IMatchAt(s, 0, "prereq") THEN 6
                  ELSE -1)

\* \.?\s+Students?\s+.*?(may not|cannot).*?further credit.*?(?=\.|$)
\* k1, k2: where "may not" and "cannot" are first found; the lazy .*? stops
\* at the first of the two alternatives
ExclusionRest(s, k1, k2) ==
    LET ke == IF k1 # -1 /\ (k2 = -1 \/ k1 < k2) THEN k1 + 7
              ELSE IF k2 # -1 THEN k2 + 6 ELSE -1
        m  == IF ke = -1 THEN -1 ELSE IFind(s, ke, "further credit")
    IN  IF m # -1 THEN NextPeriodOrEnd(s, m + 14) ELSE -1

\* j0: after the optional period; j1: after the whitespace that follows
ExclusionFrom(s, j0, j1) ==
    LET j2 == j1 + 7
        j3 == IF IMatchAt(s, j2, "s") THEN j2 + 1 ELSE j2
    IN  IF j1 > j0 /\ IMatchAt(s, j1, "student") /\ CharAt(s, j3) \in Whitespace
        THEN ExclusionRest(s, IFind(s, j3 + 1, "may not"), IFind(s, j3 + 1, "cannot"))
        ELSE -1

ExclusionEnd(s, i) ==
    LET j0 == IF CharAt(s, i) = "." THEN i + 1 ELSE i
    IN  ExclusionFrom(s, j0, SkipSpace(s, j0))

\* \b(at least|minimum|with)\s+(a\s+)?[A-B] at k; the index after [A-B], or -1
GradeLetterEnd(s, k, e) ==
    LET r == SkipSpace(s, e)
    IN  IF e # -1 /\ WordBoundary(s, k) /\ r > e /\ lower(CharAt(s, r)) \in {"a", "b"}
        THEN r + 1
        ELSE -1

GradeKeywordEnd(s, k) ==
    GradeLetterEnd(s, k, IF IMatchAt(s, k, "at least") THEN k + 8
                         ELSE IF IMatchAt(s, k, "minimum") THEN k + 7
                         ELSE IF IMatchAt(s, k, "with") THEN k + 4
                         ELSE -1)

\* [^.]*?<keyword part> from k: lazily the first k that works, not past a period
RECURSIVE GradeScan(_, _)
GradeScan(s, k) ==
    IF k >= Len(s) THEN -1
    ELSE LET q == GradeKeywordEnd(s, k)
         IN  IF q # -1 THEN q
             ELSE IF CharAt(s, k) = "." THEN -1
             ELSE GradeScan(s, k + 1)

\* \.\s*[A-Z][^.]*?\b(at least|minimum|with)\s+(a\s+)?[A-B][+-]?.*?(?=\.|$)
GradeEnd(s, i) ==
    LET j1 == SkipSpace(s, i + 1)
        q  == GradeScan(s, j1 + 1)
    IN  IF CharAt(s, i) = "." /\ CharAt(s, j1) \in AlphaChars /\ q # -1
        THEN NextPeriodOrEnd(s, q)
        ELSE -1

\* \bOne\s+W\s+course,?\s*
OneWEnd(s, i) ==
    LET a == SkipSpace(s, i + 3)
        b == SkipSpace(s, a + 1)
        c == b + 6
        d == IF CharAt(s, c) = "," THEN c + 1 ELSE c
    IN  IF WordBoundary(s, i) /\ IMatchAt(s, i, "one") /\ a > i + 3
           /\ IMatchAt(s, a, "w") /\ b > a + 1 /\ IMatchAt(s, b, "course")
        THEN SkipSpace(s, d)
        ELSE -1

\* ' '.join(s.split())
RECURSIVE JoinSplit(_, _, _)
JoinSplit(s, i, out) ==
    IF i >= Len(s) THEN out
    ELSE IF CharAt(s, i) \in Whitespace
         THEN LET j == SkipSpace(s, i)
              IN  JoinSplit(s, j, IF out = "" \/ j >= Len(s) THEN out ELSE out \o " ")
         ELSE JoinSplit(s, i + 1, out \o CharAt(s, i))

\* ,\s*both\b
CommaBothEnd(s, i) ==
    LET a == SkipSpace(s, i + 1)
    IN  IF CharAt(s, i) = "," /\ IMatchAt(s, a, "both") /\ WordBoundary(s, a + 4)
        THEN a + 4 ELSE -1

\* \bboth\b, \b(AND)\b, \b(OR)\b
WordEnd(s, i, w) ==
    IF WordBoundary(s, i) /\ IMatchAt(s, i, w) /\ WordBoundary(s, i + Len(w))
    THEN i + Len(w) ELSE -1

BothEnd(s, i) == WordEnd(s, i, "both")
AndEnd(s, i) == WordEnd(s, i, "and")
OrEnd(s, i) == WordEnd(s, i, "or")

\* the end of the match of the named pattern that starts at i, or -1
MatchEnd(pattern, s, i) ==
    CASE pattern = "exclusion" -> ExclusionEnd(s, i)
      [] pattern = "grade" -> GradeEnd(s, i)
      [] pattern = "one w" -> OneWEnd(s, i)
      [] pattern = ", both" -> CommaBothEnd(s, i)
      [] pattern = "both" -> BothEnd(s, i)
      [] pattern = "and" -> AndEnd(s, i)
      [] pattern = "or" -> OrEnd(s, i)

\* re.sub(pattern, repl, s); i is the scan position, out the text so far,
\* e the end of the match at i
RECURSIVE SubAll(_, _, _, _, _)
SubFrom(pattern, repl, s, i, out, e) ==
    IF e > i THEN SubAll(pattern, repl, s, e, out \o repl)
    ELSE SubAll(pattern, repl, s, i + 1, out \o CharAt(s, i))

SubAll(pattern, repl, s, i, out) ==
    IF i >= Len(s) THEN out
    ELSE SubFrom(pattern, repl, s, i, out, MatchEnd(pattern, s, i))

\* s.rstrip('.,;')
RECURSIVE rstrip_punct(_)
rstrip_punct(s) ==
    IF Len(s) > 0 /\ CharAt(s, Len(s) - 1) \in {".", ",", ";"}
    THEN rstrip_punct(Slice(s, 0, Len(s) - 1))
    ELSE s

\* the statements of _clean_string, the first innermost
clean_string(s) ==
    rstrip_punct(
    SubAll("or", "or",
    SubAll("and", "and",
    SubAll("both", "and",
    SubAll(", both", "",
    JoinSplit(
    SubAll("one w", "",
    SubAll("grade", "",
    SubAll("exclusion", "",
    Slice(s, PrefixEnd(s), Len(s)),
    0, ""), 0, ""), 0, ""), 0, ""), 0, ""), 0, ""), 0, ""), 0, ""))

-----------------------------------------------------------------------------
(* PrerequisiteParser: splitting and course extraction                     *)

\* The while loop of _split_respecting_parens; i is the 0-based index.
RECURSIVE SplitLoop(_, _, _, _, _, _)
SplitLoop(expr, delimiter, i, current, paren_depth, parts) ==
    IF i >= Len(expr)
    THEN IF current # "" THEN Append(parts, current) ELSE parts
    ELSE IF paren_depth = 0 /\ Slice(expr, i, i + Len(delimiter)) = delimiter
         THEN SplitLoop(expr, delimiter, i + Len(delimiter), "", paren_depth,
                        Append(parts, current))
         ELSE LET char == CharAt(expr, i)
                  depth == IF char = "(" THEN paren_depth + 1
                           ELSE IF char = ")" THEN paren_depth - 1
                           ELSE paren_depth
              IN  SplitLoop(expr, delimiter, i + 1, current \o char, depth, parts)

\* [p.strip() for p in parts if p.strip()]
StripNonEmpty(parts) ==
    SelectSeq([k \in 1..Len(parts) |-> strip(parts[k])], LAMBDA p : p # "")

split_respecting_parens(expr, delimiter) ==
    StripNonEmpty(SplitLoop(expr, delimiter, 0, "", 0, <<>>))

\* course_pattern = \b([A-Z]{3,4})[\s-](\d{3}[A-Z]?)\b  (case-sensitive)
DeptSeparators == Whitespace \cup {"-"}

AllIn(text, i, n, class) == \A k \in i..(i + n - 1) : CharAt(text, k) \in class

\* Length of group 1 for a match starting at i, 0 if [A-Z]{3,4}[\s-] fails.
DeptLenAt(text, i) ==
    IF AllIn(text, i, 4, UpperChars) /\ CharAt(text, i + 4) \in DeptSeparators
    THEN 4
    ELSE IF AllIn(text, i, 3, UpperChars) /\ CharAt(text, i + 3) \in DeptSeparators
         THEN 3
         ELSE 0

\* Length of \d{3}[A-Z]?\b starting at n, 0 if it fails.
NumberLenAt(text, n) ==
    IF ~AllIn(text, n, 3, DigitChars) THEN 0
    ELSE IF CharAt(text, n + 3) \in UpperChars /\ WordBoundary(text, n + 4)
         THEN 4
         ELSE IF WordBoundary(text, n + 3) THEN 3 ELSE 0

\* The match of course_pattern starting exactly at i (ok = FALSE if none).
CourseMatchAt(text, i) ==
    LET d == DeptLenAt(text, i)
        n == IF d = 0 THEN 0 ELSE NumberLenAt(text, i + d + 1)
    IN  IF WordBoundary(text, i) /\ d > 0 /\ n > 0
        THEN [ok |-> TRUE, dept |-> Slice(text, i, i + d),
              number |-> Slice(text, i + d + 1, i + d + 1 + n),
              end |-> i + d + 1 + n]
        ELSE [ok |-> FALSE, dept |-> "", number |-> "", end |-> i + 1]

\* for match in self.course_pattern.finditer(text): courses / last_dept
RECURSIVE FullCourses(_, _, _)
FullCourses(text, i, acc) ==
    IF i >= Len(text) THEN acc
    ELSE LET m == CourseMatchAt(text, i)
         IN  IF m.ok
             THEN FullCourses(text, m.end,
                              [courses |-> Append(acc.courses, m.dept \o "-" \o m.number),
                               last_dept |-> m.dept])
             ELSE FullCourses(text, i + 1, acc)

\* number_pattern = \b(\d{3}[A-Z]?)\b, skipping a match preceded by a letter
RECURSIVE StandaloneNumbers(_, _, _, _)
StandaloneNumbers(text, i, last_dept, courses) ==
    IF i >= Len(text) THEN courses
    ELSE LET n == IF WordBoundary(text, i) THEN NumberLenAt(text, i) ELSE 0
         IN  IF n = 0 THEN StandaloneNumbers(text, i + 1, last_dept, courses)
             ELSE IF i > 0 /\ CharAt(text, i - 1) \in AlphaChars
                  THEN StandaloneNumbers(text, i + n, last_dept, courses)
                  ELSE StandaloneNumbers(text, i + n, last_dept,
                           Append(courses, last_dept \o "-" \o Slice(text, i, i + n)))

\* if last_dept and not courses: the standalone numbers inherit last_dept
InheritDept(text, full) ==
    IF full.last_dept # "" /\ full.courses = <<>>
    THEN StandaloneNumbers(text, 0, full.last_dept, full.courses)
    ELSE full.courses

extract_courses(text) ==
    InheritDept(text, FullCourses(text, 0, [courses |-> <<>>, last_dept |-> ""]))

-----------------------------------------------------------------------------
(* PrerequisiteParser: the recursive descent                               *)

CourseNode(c) == [type |-> "COURSE", course |-> c]
AndNode(ch) == [type |-> "AND", children |-> ch]
OrNode(ch) == [type |-> "OR", children |-> ch]
UnknownNode(e) == [type |-> "UNKNOWN", expression |-> e]

\* children = [parsed for part in parts if parsed], then
\* "children[0] if len(children) == 1 else {type, children}"
Collapse(type, children) ==
    IF Len(children) = 1 THEN children[1]
    ELSE [type |-> type, children |-> children]

Group(type, parsed) == Collapse(type, SelectSeq(parsed, LAMBDA n : n # None))

\* the node for the courses found in an atom
CoursesNode(expr, courses) ==
    IF Len(courses) = 1 THEN CourseNode(courses[1])
    ELSE IF Len(courses) > 1
         THEN OrNode([k \in 1..Len(courses) |-> CourseNode(courses[k])])
         ELSE UnknownNode(expr)

RECURSIVE parse_expression(_), parse_and_group(_), parse_or_group(_), parse_atom(_)

parse_atom(expr0) ==
    LET expr == strip(expr0)
    IN  IF expr = "" THEN None
        ELSE IF startswith(expr, "(") /\ endswith(expr, ")")
             THEN parse_or_group(strip(Slice(expr, 1, Len(expr) - 1)))
             ELSE CoursesNode(expr, extract_courses(expr))

parse_or_group(expr0) ==
    LET expr == strip(expr0)
        or_parts == split_respecting_parens(expr, " or ")
    IN  IF startswith(expr, "(") /\ endswith(expr, ")")
        THEN parse_expression(strip(Slice(expr, 1, Len(expr) - 1)))
        ELSE IF Len(or_parts) > 1
             THEN Group("OR", [k \in 1..Len(or_parts) |-> parse_atom(strip(or_parts[k]))])
             ELSE parse_atom(expr)

\* mutant: the items of a comma list become alternatives
parse_and_group_CommaAsOr(expr) ==
    LET comma_parts == split_respecting_parens(expr, ",")
    IN  IF Len(comma_parts) > 1
        THEN Group("OR", [k \in 1..Len(comma_parts) |-> parse_or_group(strip(comma_parts[k]))])
        ELSE parse_or_group(expr)

parse_and_group(expr) ==
    LET comma_parts == split_respecting_parens(expr, ",")
    IN  IF Len(comma_parts) > 1
        THEN Group("AND", [k \in 1..Len(comma_parts) |-> parse_or_group(strip(comma_parts[k]))])
        ELSE parse_or_group(expr)

parse_expression(expr0) ==
    LET expr == strip(expr0)
        and_parts == split_respecting_parens(expr, " and ")
    IN  IF Len(and_parts) > 1
        THEN Group("AND", [k \in 1..Len(and_parts) |-> parse_and_group(strip(and_parts[k]))])
        ELSE parse_and_group(expr)

\* PrerequisiteParser.parse
parse_cleaned(cleaned) ==
    IF cleaned = "" THEN None ELSE parse_expression(cleaned)

parse(s) ==
    IF s = "" \/ strip(s) = "" THEN None ELSE parse_cleaned(clean_string(s))

-----------------------------------------------------------------------------
(* PrerequisiteValidator: course ids and tree evaluation                   *)

UpperChar(c) ==
    IF c \in LowerChars
    THEN LET k == CHOOSE k \in 1..26 : SubSeq(LowerAlphabet, k, k) = c
         IN  SubSeq(UpperAlphabet, k, k)
    ELSE c

\* course_id.replace(" ", "").upper()
RECURSIVE RemoveSpacesUpper(_)
RemoveSpacesUpper(s) ==
    IF s = "" THEN ""
    ELSE LET c == CharAt(s, 0)
             rest == RemoveSpacesUpper(Slice(s, 1, Len(s)))
         IN  IF c = " " THEN rest ELSE UpperChar(c) \o rest

\* for i, char in enumerate(course_id): if char.isdigit(): ... break
RECURSIVE FirstDigit(_, _)
FirstDigit(s, i) ==
    IF i >= Len(s) THEN -1
    ELSE IF CharAt(s, i) \in DigitChars THEN i ELSE FirstDigit(s, i + 1)

\* mutant: the hyphen is inserted before the first digit in every case
normalize_course_id_AlwaysHyphen(course_id) ==
    LET u == RemoveSpacesUpper(course_id)
        i == FirstDigit(u, 0)
    IN  IF i # -1
        THEN Slice(u, 0, i) \o "-" \o Slice(u, i, Len(u))
        ELSE u

\* mutant: no hyphen is inserted
normalize_course_id_NoHyphen(course_id) == RemoveSpacesUpper(course_id)

normalize_course_id(course_id) ==
    LET u == RemoveSpacesUpper(course_id)
        i == FirstDigit(u, 0)
    IN  IF "-" \notin CharsOf(u) /\ i # -1
        THEN Slice(u, 0, i) \o "-" \o Slice(u, i, Len(u))
        ELSE u

\* list(set(xs)): the elements of S in an order the hash seed decides
RECURSIVE ListsOfSet(_)
ListsOfSet(S) ==
    IF S = {} THEN {<<>>}
    ELSE UNION {{<<x>> \o l : l \in ListsOfSet(S \ {x})} : x \in S}

Elems(l) == {l[k] : k \in 1..Len(l)}

\* _validate_tree: the set of (is_valid, missing) pairs a call can return
RECURSIVE validate_tree(_, _), ValidateAnd(_, _), ValidateOrOptions(_, _)

\* mutant: the AND loop stops at the first unsatisfied child
ValidateAnd_ShortCircuit(children, completed_courses) ==
    IF children = <<>> THEN {[valid |-> TRUE, missing |-> <<>>]}
    ELSE {IF h.valid THEN r ELSE [valid |-> FALSE, missing |-> h.missing] :
             h \in validate_tree(Head(children), completed_courses),
             r \in ValidateAnd(Tail(children), completed_courses)}

\* mutant: the AND loop keeps the missing list of its last unsatisfied child only
ValidateAnd_LastOnly(children, completed_courses) ==
    IF children = <<>> THEN {[valid |-> TRUE, missing |-> <<>>]}
    ELSE {[valid |-> h.valid /\ r.valid,
           missing |-> IF r.missing # <<>> \/ h.valid THEN r.missing ELSE h.missing] :
             h \in validate_tree(Head(children), completed_courses),
             r \in ValidateAnd(Tail(children), completed_courses)}

\* the AND loop over the children
ValidateAnd(children, completed_courses) ==
    IF children = <<>> THEN {[valid |-> TRUE, missing |-> <<>>]}
    ELSE {[valid |-> h.valid /\ r.valid,
           missing |-> (IF h.valid THEN <<>> ELSE h.missing) \o r.missing] :
             h \in validate_tree(Head(children), completed_courses),
             r \in ValidateAnd(Tail(children), completed_courses)}

\* mutant: the second OR loop collects nothing
ValidateOrOptions_None(children, completed_courses) == {}

\* the second OR loop: the ids extended into all_options
ValidateOrOptions(children, completed_courses) ==
    IF children = <<>> THEN {}
    ELSE UNION {Elems(h.missing) : h \in validate_tree(Head(children), completed_courses)}
           \cup ValidateOrOptions(Tail(children), completed_courses)

\* mutant: an OR node is treated like an AND node
validate_tree_OrAsAnd(t, completed_courses) ==
    IF t.type = "COURSE"
    THEN IF t.course \in completed_courses
         THEN {[valid |-> TRUE, missing |-> <<>>]}
         ELSE {[valid |-> FALSE, missing |-> <<t.course>>]}
    ELSE IF t.type \in {"AND", "OR"}
    THEN ValidateAnd(t.children, completed_courses)
    ELSE {[valid |-> FALSE, missing |-> <<>>]}

\* mutant: a COURSE leaf is satisfied when the course is NOT completed
validate_tree_Negated(t, completed_courses) ==
    IF t.type = "COURSE"
    THEN IF t.course \notin completed_courses
         THEN {[valid |-> TRUE, missing |-> <<>>]}
         ELSE {[valid |-> FALSE, missing |-> <<t.course>>]}
    ELSE IF t.type = "AND"
    THEN ValidateAnd(t.children, completed_courses)
    ELSE IF t.type = "OR"
    THEN IF \E k \in 1..Len(t.children) :
               \E h \in validate_tree(t.children[k], completed_courses) : h.valid
         THEN {[valid |-> TRUE, missing |-> <<>>]}
         ELSE {[valid |-> FALSE, missing |-> l] :
                 l \in ListsOfSet(ValidateOrOptions(t.children, completed_courses))}
    ELSE {[valid |-> FALSE, missing |-> <<>>]}

validate_tree(t, completed_courses) ==
    IF t.type = "COURSE"
    THEN IF t.course \in completed_courses
         THEN {[valid |-> TRUE, missing |-> <<>>]}
         ELSE {[valid |-> FALSE, missing |-> <<t.course>>]}
    ELSE IF t.type = "AND"
    THEN ValidateAnd(t.children, completed_courses)
    ELSE IF t.type = "OR"
    THEN IF \E k \in 1..Len(t.children) :
               \E h \in validate_tree(t.children[k], completed_courses) : h.valid
         THEN {[valid |-> TRUE, missing |-> <<>>]}
         ELSE {[valid |-> FALSE, missing |-> l] :
                 l \in ListsOfSet(ValidateOrOptions(t.children, completed_courses))}
    ELSE {[valid |-> FALSE, missing |-> <<>>]}

\* ', '.join(missing)
RECURSIVE JoinComma(_)
JoinComma(l) ==
    IF l = <<>> THEN ""
    ELSE IF Len(l) = 1 THEN l[1]
    ELSE l[1] \o ", " \o JoinComma(Tail(l))

\* validate_prerequisites against the courses table cat (id -> prerequisites_logic):
\* the set of responses the call can return
validate_prerequisites(cat, target_course, request_transcript) ==
    LET target == normalize_course_id(target_course)
        completed == {normalize_course_id(c) : c \in request_transcript}
    IN  IF target \notin DOMAIN cat
        THEN {[target_course |-> target, is_valid |-> FALSE, missing_courses |-> <<>>,
               prerequisite_tree |-> None,
               message |-> "Course " \o target \o " not found"]}
        ELSE IF cat[target] = None
        THEN {[target_course |-> target, is_valid |-> TRUE, missing_courses |-> <<>>,
               prerequisite_tree |-> None,
               message |-> target \o " has no prerequisites"]}
        ELSE {[target_course |-> target, is_valid |-> r.valid, missing_courses |-> r.missing,
               prerequisite_tree |-> cat[target],
               message |-> IF r.valid
                           THEN "You meet all prerequisites for " \o target
                           ELSE "Missing prerequisites: " \o JoinComma(r.missing)] :
                r \in validate_tree(cat[target], completed)}

-----------------------------------------------------------------------------
(* PrerequisiteParser.flatten_courses and the prerequisite graph           *)

\* traverse(node) with the list courses built so far
RECURSIVE Traverse(_, _), TraverseChildren(_, _)
\* mutant: a course already in the list is appended again
Traverse_NoDedup(node, courses) ==
    IF node.type = "COURSE"
    THEN IF node.course # "" THEN Append(courses, node.course) ELSE courses
    ELSE IF "children" \in DOMAIN node
         THEN TraverseChildren(node.children, courses)
         ELSE courses

Traverse(node, courses) ==
    IF node.type = "COURSE"
    THEN IF node.course # "" /\ node.course \notin Elems(courses)
         THEN Append(courses, node.course)
         ELSE courses
    ELSE IF "children" \in DOMAIN node
         THEN TraverseChildren(node.children, courses)
         ELSE courses
TraverseChildren(children, courses) ==
    IF children = <<>> THEN courses
    ELSE TraverseChildren(Tail(children), Traverse(Head(children), courses))

flatten_courses(t) == IF t = None THEN <<>> ELSE Traverse(t, <<>>)


\* mutant: a course is a node only when an edge touches it
build_prerequisite_graph_EdgeNodesOnly(cat) ==
    LET courses == {id \in DOMAIN cat : cat[id] # None}
        edges == UNION {{<<prereq, id>> : prereq \in Elems(flatten_courses(cat[id]))} :
                          id \in courses}
    IN  [nodes |-> {e[1] : e \in edges} \cup {e[2] : e \in edges}, edges |-> edges]

\* build_prerequisite_graph over the courses table cat
build_prerequisite_graph(cat) ==
    LET courses == {id \in DOMAIN cat : cat[id] # None}
        edges == UNION {{<<prereq, id>> : prereq \in Elems(flatten_courses(cat[id]))} :
                          id \in courses}
    IN  [nodes |-> courses \cup {e[1] : e \in edges}, edges |-> edges]

\* "if not self.graph": no graph yet, or a graph without nodes
GraphIsFalsy(g) == g = None \/ g.nodes = {}

\* breadth-first search against the edges, with a visited set
RECURSIVE SearchBackward(_, _, _)
SearchBackward(g, visited, frontier) ==
    IF frontier = {} THEN visited
    ELSE LET next == {e[1] : e \in {d \in g.edges : d[2] \in frontier}} \ visited
         IN  SearchBackward(g, visited \cup next, next)

\* mutant: only the direct predecessors
ancestors_DirectOnly(g, source) == {e[1] : e \in {d \in g.edges : d[2] = source}} \ {source}

\* nx.ancestors(G, source)
ancestors(g, source) == SearchBackward(g, {source}, {source}) \ {source}

\* mutant: a course that lies on a cycle is answered with the empty list
get_prerequisite_chain_EmptyOnCycle(cat, g, course_id) ==
    LET g1 == IF GraphIsFalsy(g) THEN build_prerequisite_graph(cat) ELSE g
        id == normalize_course_id(course_id)
    IN  [graph |-> g1,
         returns |-> IF id \notin g1.nodes \/ id \in SearchBackward(g1, {}, {id}) THEN {<<>>}
                     ELSE ListsOfSet(ancestors(g1, id))]

\* get_prerequisite_chain on a validator whose self.graph is g: the graph the
\* validator holds afterwards and the lists the call can return
get_prerequisite_chain(cat, g, course_id) ==
    LET g1 == IF GraphIsFalsy(g) THEN build_prerequisite_graph(cat) ELSE g
        id == normalize_course_id(course_id)
    IN  [graph |-> g1,
         returns |-> IF id \notin g1.nodes THEN {<<>>}
                     ELSE ListsOfSet(ancestors(g1, id))]

\* breadth-first search along the edges, with a visited set
RECURSIVE SearchForward(_, _, _)
SearchForward(g, visited, frontier) ==
    IF frontier = {} THEN visited
    ELSE LET next == {e[2] : e \in {d \in g.edges : d[1] \in frontier}} \ visited
         IN  SearchForward(g, visited \cup next, next)

\* mutant: only the direct successors
descendants_DirectOnly(g, source) == {e[2] : e \in {d \in g.edges : d[1] = source}} \ {source}

\* nx.descendants(G, source)
descendants(g, source) == SearchForward(g, {source}, {source}) \ {source}

\* mutant: an id that is not a node is added to the graph before the search
get_courses_enabled_by_AddsNode(cat, g, course_id) ==
    LET g0 == IF GraphIsFalsy(g) THEN build_prerequisite_graph(cat) ELSE g
        id == normalize_course_id(course_id)
        g1 == [nodes |-> g0.nodes \cup {id}, edges |-> g0.edges]
    IN  [graph |-> g1, returns |-> ListsOfSet(descendants(g1, id))]

\* get_courses_enabled_by on a validator whose self.graph is g
get_courses_enabled_by(cat, g, course_id) ==
    LET g1 == IF GraphIsFalsy(g) THEN build_prerequisite_graph(cat) ELSE g
        id == normalize_course_id(course_id)
    IN  [graph |-> g1,
         returns |-> IF id \notin g1.nodes THEN {<<>>}
                     ELSE ListsOfSet(descendants(g1, id))]

-----------------------------------------------------------------------------
(* PrerequisiteValidator.suggest_next_courses                              *)

RECURSIVE has_any_prerequisite(_, _)
has_any_prerequisite(t, completed_courses) ==
    IF t.type = "COURSE" THEN t.course \in completed_courses
    ELSE IF t.type \in {"AND", "OR"}
    THEN \E k \in 1..Len(t.children) : has_any_prerequisite(t.children[k], completed_courses)
    ELSE FALSE

RECURSIVE has_real_prerequisites(_)
has_real_prerequisites(t) ==
    IF t.type = "COURSE" THEN TRUE
    ELSE IF t.type \in {"AND", "OR"}
    THEN \E k \in 1..Len(t.children) : has_real_prerequisites(t.children[k])
    ELSE FALSE

\* the dict appended for a course (the columns title, dept, number, credits
\* and prerequisites_raw are copied from the row and left out here)
Suggestion(course_id, logic, is_eligible, missing) ==
    [course_id |-> course_id, prerequisites_logic |-> logic,
     is_eligible |-> is_eligible, missing_prerequisites |-> missing]

\* the branch "if course.prerequisites_logic:" for one outcome r of
\* _validate_tree: what the loop body appends
SuggestionWithTree(course_id, logic, r, has_any_prereq, has_real_prereqs) ==
    IF r.valid \/ has_any_prereq \/ ~has_real_prereqs
    THEN <<Suggestion(course_id, logic, r.valid \/ ~has_real_prereqs,
                      IF ~(r.valid \/ ~has_real_prereqs) THEN r.missing ELSE <<>>)>>
    ELSE <<>>

\* one pass of the loop body: the lists it can append for the course
SuggestionsFor(cat, course_id, transcript_set) ==
    IF course_id \in transcript_set THEN {<<>>}
    ELSE IF cat[course_id] = None
    THEN {<<Suggestion(course_id, None, TRUE, <<>>)>>}
    ELSE {SuggestionWithTree(course_id, cat[course_id], r,
                             has_any_prerequisite(cat[course_id], transcript_set),
                             has_real_prerequisites(cat[course_id])) :
            r \in validate_tree(cat[course_id], transcript_set)}

\* for course in all_courses: the lists of suggestions the loop can build
RECURSIVE SuggestionLists(_, _, _)
SuggestionLists(cat, all_courses, transcript_set) ==
    IF all_courses = <<>> THEN {<<>>}
    ELSE {h \o r : h \in SuggestionsFor(cat, Head(all_courses), transcript_set),
                   r \in SuggestionLists(cat, Tail(all_courses), transcript_set)}

\* l[:limit] for an integer limit
SliceTo(l, limit) ==
    IF limit >= 0
    THEN SubSeq(l, 1, IF limit < Len(l) THEN limit ELSE Len(l))
    ELSE SubSeq(l, 1, IF Len(l) + limit > 0 THEN Len(l) + limit ELSE 0)

\* suggest_next_courses on a validator whose self.graph is g, when the query
\* for all courses returns the rows in the order all_courses
suggest_next_courses(cat, all_courses, g, request_transcript, limit) ==
    [graph |-> IF GraphIsFalsy(g) THEN build_prerequisite_graph(cat) ELSE g,
     returns |-> {SliceTo(s, limit) :
                    s \in SuggestionLists(cat, all_courses,
                            {normalize_course_id(c) : c \in request_transcript})}]

-----------------------------------------------------------------------------
(* Bounded inputs                                                          *)

NumCourses == 3
MaxNodes == 4

Digit(k) == SubSeq("0123456789", k + 1, k + 1)
CourseId(k) == "CMPT-10" \o Digit(k)
CourseIds == {CourseId(k) : k \in 1..NumCourses}

TargetCourse == "CMPT-300"
OpenCourse == "CMPT-100"
AbsentCourse == "CMPT-999"

Leaves == {CourseNode(c) : c \in CourseIds} \cup {UnknownNode("permission of the department")}

\* every tree of exactly n nodes / every sequence of trees of n nodes in all
RECURSIVE TreesOfSize(_), ForestsOfSize(_)
TreesOfSize(n) ==
    (IF n = 1 THEN Leaves ELSE {})
      \cup {[type |-> op, children |-> f] : op \in {"AND", "OR"}, f \in ForestsOfSize(n - 1)}
ForestsOfSize(n) ==
    IF n = 0 THEN {<<>>}
    ELSE UNION {{<<t>> \o f : t \in TreesOfSize(k), f \in ForestsOfSize(n - k)} : k \in 1..n}

TreeUniverse == UNION {TreesOfSize(n) : n \in 1..MaxNodes}

-----------------------------------------------------------------------------
(* Validation requests against a stored tree                               *)

NoGraphState == /\ graph = None /\ response = None
NoWatchState == /\ sections = <<>> /\ watchers = <<>> /\ alerts = <<>>
NoParseState == /\ prereq_string = "" /\ tree = None

InitValidate ==
    /\ NoWatchState
    /\ catalog \in {(TargetCourse :> t) @@ (OpenCourse :> None) : t \in TreeUniverse}
    /\ transcript = {}
    /\ result = None
    /\ NoGraphState
    /\ NoParseState

\* POST /validate/prereqs
ValidatePrerequisites(target_course, request_transcript) ==
    /\ transcript' = request_transcript
    /\ result' \in validate_prerequisites(catalog, target_course, request_transcript)
    /\ UNCHANGED <<catalog, prereq_string, tree, graph, response, sections, watchers, alerts>>

NextValidate ==
    \E target_course \in {TargetCourse, OpenCourse, AbsentCourse},
       request_transcript \in SUBSET CourseIds :
        ValidatePrerequisites(target_course, request_transcript)

SpecValidate == InitValidate /\ [][NextValidate]_vars

-----------------------------------------------------------------------------
(* Properties of tree evaluation (SpecValidate)                            *)

\* the tree is built of COURSE, AND and OR nodes only
RECURSIVE PureTree(_)
PureTree(t) ==
    IF t.type = "COURSE" THEN TRUE
    ELSE IF t.type \in {"AND", "OR"}
         THEN \A k \in 1..Len(t.children) : PureTree(t.children[k])
         ELSE FALSE

\* the boolean value of a tree; an Unknown leaf counts as unknownValue
RECURSIVE BoolValue(_, _, _)
BoolValue(t, T, unknownValue) ==
    IF t.type = "COURSE" THEN t.course \in T
    ELSE IF t.type = "AND"
         THEN \A k \in 1..Len(t.children) : BoolValue(t.children[k], T, unknownValue)
    ELSE IF t.type = "OR"
         THEN \E k \in 1..Len(t.children) : BoolValue(t.children[k], T, unknownValue)
    ELSE unknownValue

\* the reference missing set of a tree of COURSE, AND and OR nodes
RECURSIVE RefMissing(_, _)
RefMissing(t, T) ==
    IF t.type = "COURSE" THEN IF t.course \in T THEN {} ELSE {t.course}
    ELSE IF t.type = "OR" /\ \E k \in 1..Len(t.children) : BoolValue(t.children[k], T, FALSE)
         THEN {}
         ELSE UNION {RefMissing(t.children[k], T) : k \in 1..Len(t.children)}

\* the last response evaluated a stored tree
Evaluated == result # None /\ result.prerequisite_tree # None

\* C1: a tree that is satisfied once its Unknown leaves count as met is
\* reported valid with nothing missing (an Unknown leaf never blocks).
C1_UnknownNeverBlocks ==
    (Evaluated /\ BoolValue(result.prerequisite_tree, transcript, TRUE))
        => (result.is_valid /\ result.missing_courses = <<>>)

\* C5: for a tree of COURSE/AND/OR nodes the satisfied flag is the boolean
\* value of the tree over the transcript.
C5_SatisfiedIsBooleanValue ==
    (Evaluated /\ PureTree(result.prerequisite_tree))
        => (result.is_valid = BoolValue(result.prerequisite_tree, transcript, FALSE))

\* C5 witness: an AND of two courses evaluated with only the first completed
C5_Witness ==
    /\ Evaluated
    /\ result.prerequisite_tree = AndNode(<<CourseNode(CourseId(1)), CourseNode(CourseId(2))>>)
    /\ transcript = {CourseId(1)}
    /\ ~result.is_valid

\* C6: for a tree of COURSE/AND/OR nodes the ids of the missing list are the
\* reference missing set (AND: union over all children; OR: empty when a
\* child is satisfied, else the union over all children).
C6_MissingIsReference ==
    (Evaluated /\ PureTree(result.prerequisite_tree))
        => (Elems(result.missing_courses) = RefMissing(result.prerequisite_tree, transcript))

\* C6 witness: an AND whose three children are all unsatisfied reports all three
C6_Witness ==
    /\ Evaluated
    /\ result.prerequisite_tree.type = "AND"
    /\ PureTree(result.prerequisite_tree)
    /\ transcript = {}
    /\ Cardinality(Elems(result.missing_courses)) = 3

\* C7: a later request for the same tree of COURSE/AND/OR nodes with a larger
\* transcript never turns a satisfied answer into an unsatisfied one.
C7_Monotonic ==
    [][(/\ Evaluated
        /\ Evaluated'
        /\ PureTree(result.prerequisite_tree)
        /\ result.prerequisite_tree = result'.prerequisite_tree
        /\ transcript \subseteq transcript'
        /\ result.is_valid) => result'.is_valid]_vars

\* C7 witness: a nested tree satisfied by a transcript that can still grow
C7_Witness ==
    /\ Evaluated
    /\ PureTree(result.prerequisite_tree)
    /\ result.prerequisite_tree.type = "OR"
    /\ Len(result.prerequisite_tree.children) = 2
    /\ result.is_valid
    /\ Cardinality(transcript) = 1

-----------------------------------------------------------------------------
(* PrerequisiteParser.tree_to_string                                       *)

\* operator.join(formatted_children)
RECURSIVE JoinStrings(_, _)
JoinStrings(sep, l) ==
    IF l = <<>> THEN ""
    ELSE IF Len(l) = 1 THEN l[1]
         ELSE l[1] \o sep \o JoinStrings(sep, Tail(l))

RECURSIVE tree_to_string(_)

\* mutant: every And/Or child is put in parentheses
FormatChild_AlwaysParens(node_type, child) ==
    IF child.type \in {"AND", "OR"}
    THEN "( " \o tree_to_string(child) \o " )"
    ELSE tree_to_string(child)

\* one entry of formatted_children
FormatChild(node_type, child) ==
    IF child.type \in {"AND", "OR"} /\ child.type # node_type
    THEN "( " \o tree_to_string(child) \o " )"
    ELSE tree_to_string(child)

tree_to_string(t) ==
    IF t = None THEN ""
    ELSE IF t.type = "COURSE" THEN t.course
    ELSE IF t.type \in {"AND", "OR"}
         THEN JoinStrings(IF t.type = "AND" THEN " AND " ELSE " OR ",
                          [k \in 1..Len(t.children) |-> FormatChild(t.type, t.children[k])])
    ELSE IF t.type = "UNKNOWN" THEN t.expression
    ELSE ""

-----------------------------------------------------------------------------
(* Seat watchers: SFUCrawler.fetch_seat_count and SeatWatcherWorker        *)

\* what the request to the seat page comes to: the counts read off the page,
\* or a failure (any exception while fetching or reading it)
FetchFailed == [failed |-> TRUE]

\* fetch_seat_count: the except branch answers with zero counts
fetch_seat_count(outcome) ==
    IF outcome = FetchFailed
    THEN [seats_total |-> 0, seats_enrolled |-> 0, waitlist_total |-> 0, waitlist_enrolled |-> 0]
    ELSE outcome

\* _send_alert(watcher, section, seats_available) for the watchers of ids, in order
SendAlerts(rows, ids, section_id, seats_available) ==
    [k \in 1..Len(ids) |->
        [watcher_id |-> ids[k], user_email |-> rows[ids[k]].user_email,
         section_id |-> section_id, seats_available |-> seats_available]]

\* the two branches of _check_section that send alerts
SeatsOpened(old_available, new_available) ==
    \/ (new_available > 0 /\ old_available = 0)
    \/ new_available > old_available

\* _check_section for a stored section and the watchers of ids, when the seat
\* page comes to outcome: the stored section afterwards and the alerts sent
check_section(section, rows, ids, section_id, outcome) ==
    [section |-> fetch_seat_count(outcome),
     alerts |->
        IF SeatsOpened(section.seats_total - section.seats_enrolled,
                       fetch_seat_count(outcome).seats_total
                         - fetch_seat_count(outcome).seats_enrolled)
        THEN SendAlerts(rows, ids, section_id,
                        fetch_seat_count(outcome).seats_total
                          - fetch_seat_count(outcome).seats_enrolled)
        ELSE <<>>]

\* the ids of the active watchers of a section, in the order of their ids
RECURSIVE ActiveWatchersOf(_, _, _)
ActiveWatchersOf(rows, section_id, k) ==
    IF k > Len(rows) THEN <<>>
    ELSE (IF rows[k].is_active /\ rows[k].section_id = section_id THEN <<k>> ELSE <<>>)
           \o ActiveWatchersOf(rows, section_id, k + 1)

\* the keys of sections_to_check, in the order the dict receives them
RECURSIVE SectionsToCheck(_, _, _)
SectionsToCheck(rows, k, seen) ==
    IF k > Len(rows) THEN <<>>
    ELSE IF rows[k].is_active /\ rows[k].section_id \notin seen
         THEN <<rows[k].section_id>> \o SectionsToCheck(rows, k + 1, seen \cup {rows[k].section_id})
         ELSE SectionsToCheck(rows, k + 1, seen)

\* the loop of check_all_watchers over the sections of todo: the sections
\* table afterwards and all alerts sent, outcomes giving the seat page of each
RECURSIVE CheckSections(_, _, _, _, _)
CheckSections(secs, rows, todo, outcomes, sent) ==
    IF todo = <<>> THEN [sections |-> secs, alerts |-> sent]
    ELSE IF Head(todo) \notin DOMAIN secs
         THEN CheckSections(secs, rows, Tail(todo), outcomes, sent)
         ELSE CheckSections(
                [secs EXCEPT ![Head(todo)] =
                    check_section(secs[Head(todo)], rows,
                                  ActiveWatchersOf(rows, Head(todo), 1),
                                  Head(todo), outcomes[Head(todo)]).section],
                rows, Tail(todo), outcomes,
                sent \o check_section(secs[Head(todo)], rows,
                                      ActiveWatchersOf(rows, Head(todo), 1),
                                      Head(todo), outcomes[Head(todo)]).alerts)

\* "existing": an active watcher of the user for the section
ExistingWatcher(rows, email, section_id) ==
    \E k \in 1..Len(rows) :
        /\ rows[k].user_email = email
        /\ rows[k].section_id = section_id
        /\ rows[k].is_active

-----------------------------------------------------------------------------
(* Parsing requirement text                                                *)

MaxFragments == 4
MaxItems == 5

\* the pieces requirement text is put together from
Fragments == <<"CMPT 101", "102", "advice", " or ", " and ", ",", "(", ")", " ">>

RECURSIVE TextsOf(_)
TextsOf(n) ==
    IF n = 0 THEN {""}
    ELSE {t \o Fragments[k] : t \in TextsOf(n - 1), k \in 1..Len(Fragments)}

FragmentTexts == UNION {TextsOf(n) : n \in 0..MaxFragments}

\* a fully-qualified reference to the k-th course (its id is CourseId(k))
CourseRef(k) == "CMPT 10" \o Digit(k)

\* shorthand lists "CMPT 101 or 102 or ... or 10n"
RECURSIVE ShorthandText(_)
ShorthandText(n) ==
    IF n = 1 THEN CourseRef(1) ELSE ShorthandText(n - 1) \o " or 10" \o Digit(n)

ShorthandTexts == {ShorthandText(n) : n \in 2..MaxItems}

\* parenthesised fragments used as operands
InnerFragments ==
    {CourseRef(2) \o op \o CourseRef(3) : op \in {" and ", " or ", ", "}}
      \cup {CourseRef(2), CourseRef(2) \o " or " \o CourseRef(3) \o " and " \o CourseRef(4)}
Operators == {" and ", " or ", ", "}
Parens(x) == "(" \o x \o ")"
OperandTexts ==
    {Parens(x) : x \in InnerFragments}
      \cup {CourseRef(1) \o op \o Parens(x) : op \in Operators, x \in InnerFragments}
      \cup {Parens(x) \o op \o CourseRef(1) : op \in Operators, x \in InnerFragments}
      \cup {Parens(x) \o op \o Parens(y) : op \in Operators, x, y \in InnerFragments \cup {""}}

\* lists of fully-qualified references: course 1, separator, course 2, ...
ListSeparators == {", ", " or ", ", and ", " and "}
SeparatorLists(n) == [1..(n - 1) -> ListSeparators]

RECURSIVE ListText(_, _)
ListText(seps, n) ==
    IF n = 1 THEN CourseRef(1)
    ELSE ListText(seps, n - 1) \o seps[n - 1] \o CourseRef(n)

CommaListTexts == {ListText(seps, n) : seps \in SeparatorLists(MaxItems), n \in 1..MaxItems}

Unparsed == [type |-> "UNPARSED"]

NoValidateState == /\ catalog = <<>> /\ transcript = {} /\ result = None

InitParse ==
    /\ NoWatchState
    /\ prereq_string \in FragmentTexts \cup ShorthandTexts \cup OperandTexts
    /\ tree = Unparsed
    /\ NoValidateState
    /\ NoGraphState

InitCommaList ==
    /\ NoWatchState
    /\ prereq_string \in CommaListTexts
    /\ tree = Unparsed
    /\ NoValidateState
    /\ NoGraphState

\* parser.parse(prereq_string)
Parse ==
    /\ tree = Unparsed
    /\ tree' = parse(prereq_string)
    /\ UNCHANGED <<prereq_string, transcript, result, catalog, graph, response, sections, watchers, alerts>>

NextParse == Parse

SpecParse == InitParse /\ [][NextParse]_vars

SpecCommaList == InitCommaList /\ [][NextParse]_vars

-----------------------------------------------------------------------------
(* Properties of the parser (SpecParse, SpecCommaList)                     *)

Parsed == tree # Unparsed

\* C2: "D n1 or n2 or ... or nk" parses to the OR of the k courses of
\* department D (bare numbers inherit the department).
C2_ShorthandInheritsDept ==
    \A n \in 2..MaxItems :
        (Parsed /\ prereq_string = ShorthandText(n))
            => tree = OrNode([k \in 1..n |-> CourseNode(CourseId(k))])

\* courses i and j of a list stand in the same comma-separated item
SameItem(seps, i, j) ==
    \A m \in (IF i < j THEN i ELSE j)..((IF i < j THEN j ELSE i) - 1) : seps[m] = " or "

\* every comma/and-separated item has a completed course among its alternatives
ListSatisfied(seps, n, T) ==
    \A i \in 1..n : \E j \in 1..n : SameItem(seps, i, j) /\ CourseId(j) \in T

\* C3: commas mean AND: the tree of a list of fully-qualified references is
\* satisfied exactly when every comma-separated item has a completed
\* alternative; "A, B" parses to And[A, B].
C3_CommaMeansAnd ==
    Parsed =>
      /\ \A n \in 1..MaxItems : \A seps \in SeparatorLists(n) :
           prereq_string = ListText(seps, n) =>
             /\ tree # None
             /\ \A T \in SUBSET {CourseId(k) : k \in 1..n} :
                  \A r \in validate_tree(tree, T) : r.valid = ListSatisfied(seps, n, T)
      /\ prereq_string = CourseRef(1) \o ", " \o CourseRef(2)
           => tree = AndNode(<<CourseNode(CourseId(1)), CourseNode(CourseId(2))>>)

\* C3 witness: "A, B, C or D, and E" has been parsed
C3_Witness ==
    /\ Parsed
    /\ prereq_string = ListText(<<", ", ", ", " or ", ", and ">>, 5)
    /\ tree.type = "AND"

OperatorNode(op, ch) == IF op = " or " THEN OrNode(ch) ELSE AndNode(ch)

\* C4: a parenthesised operand "(X)" contributes the tree of X, whatever the
\* operator it is an operand of.
C4_ParensRestartPrecedence ==
    Parsed =>
      \A x \in InnerFragments :
        /\ prereq_string = Parens(x) => tree = parse(x)
        /\ \A op \in Operators :
             /\ prereq_string = CourseRef(1) \o op \o Parens(x)
                  => tree = OperatorNode(op, <<CourseNode(CourseId(1)), parse(x)>>)
             /\ prereq_string = Parens(x) \o op \o CourseRef(1)
                  => tree = OperatorNode(op, <<parse(x), CourseNode(CourseId(1))>>)

\* every AND/OR node has at least two children
RECURSIVE WellShaped(_)
WellShaped(t) ==
    IF t.type \in {"AND", "OR"}
    THEN Len(t.children) >= 2 /\ \A k \in 1..Len(t.children) : WellShaped(t.children[k])
    ELSE TRUE

\* C8: no AND/OR node of a parsed tree has zero children or exactly one child.
C8_TreeShape == (Parsed /\ tree # None) => WellShaped(tree)

\* C9: parse returns None exactly when the text is empty, blank, or empty
\* after cleaning.
C9_NoneIffEmpty ==
    Parsed => ((tree = None) <=> (strip(prereq_string) = "" \/ clean_string(prereq_string) = ""))

-----------------------------------------------------------------------------
(* Graph queries of a validator over a catalog                             *)

NumGraphCourses == 3
MaxPrereqs == 2

GraphCourseIds == {CourseId(k) : k \in 1..NumGraphCourses}

\* the ids of S in the order of their numbers
RECURSIVE IdsInOrder(_, _)
IdsInOrder(S, k) ==
    IF k > NumGraphCourses THEN <<>>
    ELSE (IF CourseId(k) \in S THEN <<CourseId(k)>> ELSE <<>>) \o IdsInOrder(S, k + 1)

\* a tree whose COURSE leaves are the ids of S (one of them twice)
TreeWithLeaves(S) ==
    LET ids == IdsInOrder(S, 1)
        leaves == [k \in 1..Len(ids) |-> CourseNode(ids[k])]
    IN  IF Len(ids) = 1 THEN leaves[1]
        ELSE AndNode(<<leaves[1], OrNode(Tail(leaves) \o <<leaves[1]>>)>>)

EntryTrees ==
    {None, UnknownNode("permission of the department")}
      \cup {TreeWithLeaves(S) :
              S \in {P \in SUBSET GraphCourseIds : Cardinality(P) \in 1..MaxPrereqs}}

QueryIds == GraphCourseIds \cup {"cmpt 101", AbsentCourse}

InitGraph ==
    /\ NoWatchState
    /\ catalog \in [GraphCourseIds -> EntryTrees]
    /\ graph = None
    /\ response = None
    /\ transcript = {}
    /\ result = None
    /\ NoParseState

\* a request constructs its PrerequisiteValidator(session)
NewValidator ==
    /\ graph' = None
    /\ response' = None
    /\ UNCHANGED <<prereq_string, tree, catalog, transcript, result, sections, watchers, alerts>>

\* GET /validate/prereq-chain/{course_id}
GetPrerequisiteChain(course_id) ==
    LET call == get_prerequisite_chain(catalog, graph, course_id)
    IN  /\ graph' = call.graph
        /\ \E l \in call.returns :
             response' = [op |-> "prerequisite_chain", course_id |-> course_id, value |-> l]
        /\ UNCHANGED <<prereq_string, tree, catalog, transcript, result, sections, watchers, alerts>>

\* GET /validate/unlocked-by/{course_id}
GetCoursesEnabledBy(course_id) ==
    LET call == get_courses_enabled_by(catalog, graph, course_id)
    IN  /\ graph' = call.graph
        /\ \E l \in call.returns :
             response' = [op |-> "unlocked_by", course_id |-> course_id, value |-> l]
        /\ UNCHANGED <<prereq_string, tree, catalog, transcript, result, sections, watchers, alerts>>

NextGraph ==
    \/ NewValidator
    \/ \E course_id \in QueryIds : GetPrerequisiteChain(course_id)
    \/ \E course_id \in QueryIds : GetCoursesEnabledBy(course_id)

SpecGraph == InitGraph /\ [][NextGraph]_vars

\* there is a path of at least one and at most n edges from p to c
RECURSIVE PathWithin(_, _, _, _)
PathWithin(edges, p, c, n) ==
    /\ n >= 1
    /\ \/ <<p, c>> \in edges
       \/ \E e \in edges : e[1] = p /\ PathWithin(edges, e[2], c, n - 1)

HasPath(g, p, c) == PathWithin(g.edges, p, c, Cardinality(g.nodes))

\* the last query was prerequisite_chain for an id that is a node of the graph
ChainAnswered ==
    /\ response # None
    /\ response.op = "prerequisite_chain"
    /\ graph # None
    /\ normalize_course_id(response.course_id) \in graph.nodes

\* C10 as stated: the chain of c is exactly the set of nodes with a path of
\* one or more edges to c.
C10_ChainIsAllWithPath ==
    ChainAnswered =>
        Elems(response.value) =
            {p \in graph.nodes : HasPath(graph, p, normalize_course_id(response.course_id))}

\* C10 amended: the chain of c is exactly the set of nodes other than c
\* with a path of one or more edges to c, each listed once.
C10_ChainIsProperAncestors ==
    ChainAnswered =>
        LET c == normalize_course_id(response.course_id)
        IN  /\ Elems(response.value) = {p \in graph.nodes \ {c} : HasPath(graph, p, c)}
            /\ Len(response.value) = Cardinality(Elems(response.value))

\* C10 witness: the chain of the last course of 1 -> 2 -> 3 has been returned
C10_Witness ==
    /\ ChainAnswered
    /\ response.course_id = CourseId(3)
    /\ graph.edges = {<<CourseId(1), CourseId(2)>>, <<CourseId(2), CourseId(3)>>}
    /\ Elems(response.value) = {CourseId(1), CourseId(2)}

-----------------------------------------------------------------------------
(* Properties of the two graph queries (SpecGraph)                         *)

\* canonical course ids: the catalog's ids and one id outside the catalog
CanonicalIds == GraphCourseIds \cup {AbsentCourse}

\* the last query was unlocked_by for an id that is a node of the graph
UnlockedAnswered ==
    /\ response # None
    /\ response.op = "unlocked_by"
    /\ graph # None
    /\ normalize_course_id(response.course_id) \in graph.nodes

\* B is in prerequisite_chain(A) iff A is in unlocked_by(B), for the answer
\* just given and every other canonical id, on the validator's graph
InverseRelations ==
    response # None =>
        LET c == normalize_course_id(response.course_id)
        IN  /\ response.op = "prerequisite_chain" =>
                \A b \in CanonicalIds :
                    (b \in Elems(response.value)) <=>
                        (\A l \in get_courses_enabled_by(catalog, graph, b).returns : c \in Elems(l))
            /\ response.op = "unlocked_by" =>
                \A a \in CanonicalIds :
                    (a \in Elems(response.value)) <=>
                        (\A l \in get_prerequisite_chain(catalog, graph, a).returns : c \in Elems(l))

\* C11 as stated: the two queries are inverse relations, and unlocked_by(B)
\* is the set of nodes that a path of one or more edges from B leads to.
C11_InverseAndAllReachable ==
    /\ InverseRelations
    /\ UnlockedAnswered =>
         Elems(response.value) =
             {n \in graph.nodes : HasPath(graph, normalize_course_id(response.course_id), n)}

\* C11 amended: the two queries are inverse relations, and unlocked_by(B) is
\* the set of nodes other than B that a path from B leads to.
C11_InverseAndProperDescendants ==
    /\ InverseRelations
    /\ UnlockedAnswered =>
         LET b == normalize_course_id(response.course_id)
         IN  Elems(response.value) = {n \in graph.nodes \ {b} : HasPath(graph, b, n)}

\* C11 witness: unlocked_by of the first course of 1 -> 2 -> 3 has been returned
C11_Witness ==
    /\ UnlockedAnswered
    /\ response.course_id = CourseId(1)
    /\ graph.edges = {<<CourseId(1), CourseId(2)>>, <<CourseId(2), CourseId(3)>>}
    /\ Elems(response.value) = {CourseId(2), CourseId(3)}

\* some node lies on a cycle (a self-loop included)
HasCycle(g) == \E n \in g.nodes : HasPath(g, n, n)

\* on the validator's graph, each query returns a list for every id
EveryQueryAnswers ==
    \A id \in QueryIds :
        /\ get_prerequisite_chain(catalog, graph, id).returns # {}
        /\ get_courses_enabled_by(catalog, graph, id).returns # {}

\* C12 as stated: on a graph with a cycle every query has an outcome, and the
\* outcome is the set of nodes reachable in the direction of the query.
C12_CycleGivesAllReachable ==
    (graph # None /\ HasCycle(graph)) =>
        /\ EveryQueryAnswers
        /\ ChainAnswered =>
             Elems(response.value) =
                 {p \in graph.nodes : HasPath(graph, p, normalize_course_id(response.course_id))}
        /\ UnlockedAnswered =>
             Elems(response.value) =
                 {n \in graph.nodes : HasPath(graph, normalize_course_id(response.course_id), n)}

\* C12 amended: on a graph with a cycle every query has an outcome, and the
\* outcome is the set of nodes other than the queried course that are
\* reachable in the direction of the query.
C12_CycleGivesProperReachable ==
    (graph # None /\ HasCycle(graph)) =>
        LET c == normalize_course_id(response.course_id)
        IN  /\ EveryQueryAnswers
            /\ ChainAnswered =>
                 Elems(response.value) = {p \in graph.nodes \ {c} : HasPath(graph, p, c)}
            /\ UnlockedAnswered =>
                 Elems(response.value) = {n \in graph.nodes \ {c} : HasPath(graph, c, n)}

\* C12 witness: on the cycle 1 -> 2 -> 1 with 3 -> 3, the chain of course 1
\* has been returned
C12_Witness ==
    /\ ChainAnswered
    /\ response.course_id = CourseId(1)
    /\ graph.edges = {<<CourseId(1), CourseId(2)>>, <<CourseId(2), CourseId(1)>>,
                      <<CourseId(3), CourseId(3)>>}
    /\ response.value = <<CourseId(2)>>

\* C13: a query for an id that is not a node of the catalog's graph returns
\* the empty list, and the validator's graph is the catalog's graph, the same
\* as before the query when the validator already held one.
C13_AbsentIdGivesEmpty ==
    [][(response' # None
          /\ normalize_course_id(response'.course_id)
                \notin build_prerequisite_graph(catalog).nodes)
        => /\ response'.value = <<>>
           /\ graph' = build_prerequisite_graph(catalog)
           /\ graph # None => graph' = graph]_vars

\* C13 witness: unlocked_by was asked for an id outside the catalog, on a
\* graph with edges
C13_Witness ==
    /\ response # None
    /\ response.op = "unlocked_by"
    /\ response.course_id = AbsentCourse
    /\ response.value = <<>>
    /\ graph # None
    /\ graph.edges # {}

-----------------------------------------------------------------------------
(* Suggestion requests over a catalog                                      *)

NumSuggestCourses == 3
MaxBelowZero == 2

SuggestCourseIds == {CourseId(k) : k \in 1..NumSuggestCourses}

\* the stored trees: none, free text only, two courses, and mixes of courses
\* and free text
SuggestTrees ==
    {None,
     UnknownNode("permission of the department"),
     AndNode(<<CourseNode(CourseId(1)), CourseNode(CourseId(2))>>),
     OrNode(<<CourseNode(CourseId(1)),
              AndNode(<<CourseNode(CourseId(2)), UnknownNode("advice")>>)>>),
     AndNode(<<CourseNode(CourseId(1)), UnknownNode("advice")>>)}

Limits == (0 - MaxBelowZero)..(NumSuggestCourses + 1)

InitSuggest ==
    /\ NoWatchState
    /\ catalog \in [SuggestCourseIds -> SuggestTrees]
    /\ transcript = {}
    /\ result = None
    /\ NoGraphState
    /\ NoParseState

\* POST /validate/suggest-next: a new validator answers; all_courses is the
\* order in which the query without ORDER BY returns the rows.  A request
\* leaves nothing behind that a later one reads, so a behaviour holds one.
SuggestNextCourses(request_transcript, limit) ==
    \E all_courses \in ListsOfSet(DOMAIN catalog) :
        LET call == suggest_next_courses(catalog, all_courses, None, request_transcript, limit)
        IN  /\ response = None
            /\ transcript' = request_transcript
            /\ graph' = call.graph
            /\ \E l \in call.returns :
                 response' = [op |-> "suggest_next", all_courses |-> all_courses,
                              limit |-> limit, value |-> l]
            /\ UNCHANGED <<prereq_string, tree, catalog, result, sections, watchers, alerts>>

NextSuggest ==
    \E request_transcript \in SUBSET SuggestCourseIds, limit \in Limits :
        SuggestNextCourses(request_transcript, limit)

SpecSuggest == InitSuggest /\ [][NextSuggest]_vars

\* the last request asked for suggestions
Suggested == response # None /\ response.op = "suggest_next"

\* no entry was cut off: the limit is at least the size of the catalog
Uncut == Suggested /\ response.limit >= Cardinality(DOMAIN catalog)

\* the entries of the answer for the course id
EntriesOf(id) == {k \in 1..Len(response.value) : response.value[k].course_id = id}

\* the ids of the COURSE leaves of a tree
RECURSIVE LeafCourses(_)
LeafCourses(t) ==
    IF t.type = "COURSE" THEN {t.course}
    ELSE IF t.type \in {"AND", "OR"}
         THEN UNION {LeafCourses(t.children[k]) : k \in 1..Len(t.children)}
         ELSE {}

\* C14: a course of the transcript is never suggested; a course without a
\* tree is suggested as eligible; a course with a tree is suggested iff the
\* tree is satisfied (by the evaluation rules, where an Unknown leaf counts
\* as met), or a COURSE leaf is in the transcript, or it has no COURSE leaf;
\* it is eligible exactly when the tree is satisfied or has no COURSE leaf.
C14_InclusionPolicy ==
    Uncut =>
        \A id \in DOMAIN catalog :
            IF id \in transcript THEN EntriesOf(id) = {}
            ELSE IF catalog[id] = None
            THEN \E k \in EntriesOf(id) : response.value[k].is_eligible
            ELSE LET satisfied == BoolValue(catalog[id], transcript, TRUE)
                     leaves == LeafCourses(catalog[id])
                 IN  /\ (EntriesOf(id) # {}) <=>
                            (satisfied \/ leaves \cap transcript # {} \/ leaves = {})
                     /\ \A k \in EntriesOf(id) :
                            response.value[k].is_eligible <=> (satisfied \/ leaves = {})

\* C15: the answer has at most max(limit, 0) entries, and they are the first
\* entries of the full list of qualifying courses in the order of the rows.
C15_CappedAtLimit ==
    Suggested =>
        /\ Len(response.value) <= (IF response.limit > 0 THEN response.limit ELSE 0)
        /\ \E full \in SuggestionLists(catalog, response.all_courses, transcript) :
               response.value = SubSeq(full, 1, Len(response.value))

-----------------------------------------------------------------------------
(* Course-id normalization on free-form mentions                           *)

MaxIdLen == 4

IdChars == {"c", "M", "1", "2", "-", " "}

RECURSIVE IdTextsOf(_)
IdTextsOf(n) ==
    IF n = 0 THEN {""}
    ELSE {x \o c : x \in IdTextsOf(n - 1), c \in IdChars}

IdTexts == UNION {IdTextsOf(n) : n \in 0..MaxIdLen}

InitNormalize ==
    /\ NoWatchState
    /\ catalog = <<>>
    /\ transcript = {}
    /\ result = None
    /\ NoGraphState
    /\ NoParseState

\* self._normalize_course_id(course_id) on a mention
NormalizeCourseId(course_id) ==
    /\ response = None
    /\ response' = [op |-> "normalize", course_id |-> course_id,
                    value |-> normalize_course_id(course_id)]
    /\ UNCHANGED <<prereq_string, tree, catalog, transcript, result, graph, sections, watchers, alerts>>

NextNormalize == \E course_id \in IdTexts : NormalizeCourseId(course_id)

SpecNormalize == InitNormalize /\ [][NextNormalize]_vars

Normalized == response # None /\ response.op = "normalize"

\* s is DEPT-NUMBER: upper-case letters, one hyphen, digits
IsCanonicalId(s) ==
    \E i \in 1..(Len(s) - 2) :
        /\ AllIn(s, 0, i, UpperChars)
        /\ CharAt(s, i) = "-"
        /\ AllIn(s, i + 1, Len(s) - i - 1, DigitChars)

\* C16: normalizing the normalized id gives it again, and a canonical
\* DEPT-NUMBER id is returned unchanged.
C16_NormalizeIdempotent ==
    Normalized =>
        /\ normalize_course_id(response.value) = response.value
        /\ IsCanonicalId(response.course_id) => response.value = response.course_id

\* C16 witness: a lower-case mention with a space was normalized
C16_Witness ==
    /\ Normalized
    /\ response.course_id = "c 12"
    /\ response.value = "C-12"

-----------------------------------------------------------------------------
(* Validation requests that spell course ids freely                        *)

NumSpelledCourses == 2
MaxSpelledNodes == 2

SpelledCourseIds == {CourseId(k) : k \in 1..NumSpelledCourses}

Separators == {" ", "", "-"}
LetterCases == {"upper", "lower", "capitalized"}

\* the department letters of a canonical id in the given letter case
InCase(dept, case) ==
    IF case = "lower" THEN lower(dept)
    ELSE IF case = "capitalized"
         THEN Slice(dept, 0, 1) \o lower(Slice(dept, 1, Len(dept)))
         ELSE dept

\* the canonical id "D-N" written with another separator and letter case
Spell(id, sep, case) ==
    LET h == CHOOSE h \in 0..(Len(id) - 1) : CharAt(id, h) = "-"
    IN  InCase(Slice(id, 0, h), case) \o sep \o Slice(id, h + 1, Len(id))

Spellings(id) == {Spell(id, sep, case) : sep \in Separators, case \in LetterCases}

\* the canonical id a spelling stands for
CanonicalOf(s) ==
    CHOOSE id \in SpelledCourseIds \cup {TargetCourse, OpenCourse} : s \in Spellings(id)

SpelledTrees ==
    {t \in UNION {TreesOfSize(n) : n \in 1..MaxSpelledNodes} :
        LeafCourses(t) \subseteq SpelledCourseIds}

InitSpelling ==
    /\ NoWatchState
    /\ catalog \in {(TargetCourse :> t) @@ (OpenCourse :> None) : t \in SpelledTrees}
    /\ transcript = {}
    /\ result = None
    /\ NoGraphState
    /\ NoParseState

\* one request to validate_prerequisites; response keeps the target as it was sent
SpelledValidate(target_course, request_transcript) ==
    /\ result = None
    /\ transcript' = request_transcript
    /\ result' \in validate_prerequisites(catalog, target_course, request_transcript)
    /\ response' = [op |-> "validate", target_course |-> target_course]
    /\ UNCHANGED <<catalog, prereq_string, tree, graph, sections, watchers, alerts>>

NextSpelling ==
    \E target \in {TargetCourse, OpenCourse}, S \in SUBSET SpelledCourseIds,
       sep1 \in Separators, case1 \in LetterCases,
       sep2 \in Separators, case2 \in LetterCases :
        SpelledValidate(Spell(target, sep1, case1), {Spell(c, sep2, case2) : c \in S})

SpecSpelling == InitSpelling /\ [][NextSpelling]_vars

SpelledAnswered == result # None /\ response # None /\ response.op = "validate"

\* some outcome of the request with every id in its canonical spelling has
\* this verdict and this missing list
SameAsCanonical(res, cat, target, completed) ==
    \E r \in validate_prerequisites(cat, target, completed) :
        /\ r.is_valid = res.is_valid
        /\ r.missing_courses = res.missing_courses

\* C17: the spellings "D N", "DN" and "D-N" in any letter case normalize to the
\* canonical id "D-N", and a request that uses them for the target or for the
\* transcript gets the verdict and the missing list of the request that uses
\* the canonical ids.
C17_SpellingsAgree ==
    SpelledAnswered =>
        /\ \A s \in transcript \cup {response.target_course} :
              normalize_course_id(s) = CanonicalOf(s)
        /\ result.target_course = CanonicalOf(response.target_course)
        /\ SameAsCanonical(result, catalog, CanonicalOf(response.target_course),
                           {CanonicalOf(s) : s \in transcript})

\* C17 witness: the target spelled joined in lower case, the transcript's entry
\* capitalized with a space, and the transcript's entry satisfied the stored tree
C17_Witness ==
    /\ SpelledAnswered
    /\ response.target_course = "cmpt300"
    /\ transcript = {"Cmpt 101"}
    /\ catalog[TargetCourse] = AndNode(<<CourseNode(CourseId(1))>>)
    /\ result.is_valid
    /\ result.missing_courses = <<>>

-----------------------------------------------------------------------------
(* Flattening stored trees                                                 *)

InitFlatten ==
    /\ NoWatchState
    /\ tree \in TreeUniverse \cup {None}
    /\ prereq_string = ""
    /\ NoValidateState
    /\ NoGraphState

\* parser.flatten_courses(tree) on a stored tree
FlattenCourses ==
    /\ response = None
    /\ response' = [op |-> "flatten", value |-> flatten_courses(tree)]
    /\ UNCHANGED <<prereq_string, tree, catalog, transcript, result, graph, sections, watchers, alerts>>

NextFlatten == FlattenCourses

SpecFlatten == InitFlatten /\ [][NextFlatten]_vars

Flattened == response # None /\ response.op = "flatten"

\* the ids of the Course leaves from left to right, repeated as they occur
RECURSIVE PreOrderLeaves(_)
PreOrderLeaves(t) ==
    IF t.type = "COURSE" THEN <<t.course>>
    ELSE IF t.type \in {"AND", "OR"}
         THEN LET F[k \in 0..Len(t.children)] ==
                      IF k = 0 THEN <<>> ELSE F[k - 1] \o PreOrderLeaves(t.children[k])
              IN  F[Len(t.children)]
         ELSE <<>>

FirstIndex(l, x) == CHOOSE i \in 1..Len(l) : l[i] = x /\ \A j \in 1..(i - 1) : l[j] # x

\* l lists exactly the ids of pre, each once, in the order of their first
\* occurrence in pre
FirstOccurrences(l, pre) ==
    /\ Elems(l) = Elems(pre)
    /\ \A i, j \in 1..Len(l) : i < j => FirstIndex(pre, l[i]) < FirstIndex(pre, l[j])

OrOfCourses(t) ==
    /\ t # None
    /\ t.type = "OR"
    /\ \A k \in 1..Len(t.children) : t.children[k].type = "COURSE"

\* C18: flatten_courses lists every Course id of the tree once, in the order of
\* first occurrence from left to right; Unknown leaves add nothing, an absent
\* tree gives the empty list, and an Or of Course leaves gives its ids in
\* order without repetition.
C18_FlattenPreOrderOnce ==
    Flattened =>
        /\ tree = None => response.value = <<>>
        /\ tree # None => FirstOccurrences(response.value, PreOrderLeaves(tree))
        /\ OrOfCourses(tree) =>
              FirstOccurrences(response.value, [k \in 1..Len(tree.children) |-> tree.children[k].course])

\* C18 witness: an Or that repeats its first course after another one
C18_Witness ==
    /\ Flattened
    /\ tree = OrNode(<<CourseNode(CourseId(2)), CourseNode(CourseId(1)), CourseNode(CourseId(2))>>)
    /\ response.value = <<CourseId(2), CourseId(1)>>

-----------------------------------------------------------------------------
(* Requirement text that ends in a grade-minimum clause                    *)

MaxGradeFragments == 2

GradeClause == " with a minimum grade of C-"
CommaGradeClause == "," \o GradeClause

GradeBases == UNION {TextsOf(n) : n \in 0..MaxGradeFragments}

InitGrade ==
    /\ NoWatchState
    /\ prereq_string \in {x \o clause : x \in GradeBases, clause \in {GradeClause, CommaGradeClause}}
    /\ tree = Unparsed
    /\ NoValidateState
    /\ NoGraphState

SpecGrade == InitGrade /\ [][NextParse]_vars

EndsWith(s, suffix) ==
    Len(s) >= Len(suffix) /\ Slice(s, Len(s) - Len(suffix), Len(s)) = suffix

\* the text before the trailing clause (the comma belongs to the clause)
BeforeGradeClause(s) ==
    IF EndsWith(s, CommaGradeClause) THEN Slice(s, 0, Len(s) - Len(CommaGradeClause))
    ELSE Slice(s, 0, Len(s) - Len(GradeClause))

\* the text with the clause parsed to the tree t of the text without it
SameTreeWhenParsed(t, parsed) == t # None => parsed = t

\* C19: a text that ends in a grade-minimum clause, with or without a comma
\* before it, parses to the tree of the text before the clause, when that text
\* has a tree.
C19_GradeClauseIgnored ==
    tree # Unparsed => SameTreeWhenParsed(parse(BeforeGradeClause(prereq_string)), tree)

-----------------------------------------------------------------------------
(* The missing list of a validation answer (SpecValidate)                  *)

Repeats(l) == \E i, j \in 1..Len(l) : i # j /\ l[i] = l[j]

\* C20: the missing_courses list of an answer never holds a course id twice.
C20_MissingIsSet ==
    result # None => ~Repeats(result.missing_courses)

-----------------------------------------------------------------------------
(* Rendering stored trees                                                  *)

InitRender ==
    /\ NoWatchState
    /\ tree \in TreeUniverse \cup {None}
    /\ prereq_string = ""
    /\ NoValidateState
    /\ NoGraphState

\* parser.tree_to_string(tree) on a stored tree
TreeToString ==
    /\ response = None
    /\ response' = [op |-> "render", value |-> tree_to_string(tree)]
    /\ UNCHANGED <<prereq_string, tree, catalog, transcript, result, graph, sections, watchers, alerts>>

NextRender == TreeToString

SpecRender == InitRender /\ [][NextRender]_vars

Rendered == response # None /\ response.op = "render"

IsGroup(t) == t.type \in {"AND", "OR"}

\* the child as it stands in its parent's string: in parentheses exactly when
\* it is a group of the other operator
Operand(parent, child) ==
    IF IsGroup(child) /\ child.type # parent.type
    THEN "( " \o tree_to_string(child) \o " )"
    ELSE tree_to_string(child)

\* the operands of t with t's operator between them
Infix(t) ==
    LET op == IF t.type = "AND" THEN " AND " ELSE " OR "
        F[k \in 0..Len(t.children)] ==
            IF k = 0 THEN ""
            ELSE (IF k = 1 THEN "" ELSE F[k - 1] \o op) \o Operand(t, t.children[k])
    IN  F[Len(t.children)]

\* how many groups of t stand under a group of the other operator
RECURSIVE MixedPairs(_)
MixedPairs(t) ==
    IF IsGroup(t)
    THEN LET F[k \in 0..Len(t.children)] ==
                 IF k = 0 THEN 0
                 ELSE F[k - 1] + MixedPairs(t.children[k])
                        + (IF IsGroup(t.children[k]) /\ t.children[k].type # t.type THEN 1 ELSE 0)
         IN  F[Len(t.children)]
    ELSE 0

CountChar(s, c) == Cardinality({i \in 1..Len(s) : SubSeq(s, i, i) = c})

\* C21: an And/Or node renders as its children's strings with its operator
\* between them, a child in parentheses exactly when it is an And/Or node of
\* the other operator; Course and Unknown leaves render as their text, an
\* absent tree as the empty string, and the string has one pair of parentheses
\* for every such child, at any depth.
C21_InfixMinimalParens ==
    Rendered =>
        /\ tree = None => response.value = ""
        /\ tree # None /\ IsGroup(tree) => response.value = Infix(tree)
        /\ tree # None /\ tree.type = "COURSE" => response.value = tree.course
        /\ tree # None /\ tree.type = "UNKNOWN" => response.value = tree.expression
        /\ tree # None =>
              /\ CountChar(response.value, "(") = MixedPairs(tree)
              /\ CountChar(response.value, ")") = MixedPairs(tree)

\* C21 witness: an And of two courses under an Or is in parentheses
C21_Witness ==
    /\ Rendered
    /\ tree = OrNode(<<AndNode(<<CourseNode(CourseId(1)), CourseNode(CourseId(2))>>)>>)
    /\ response.value = "( CMPT-101 AND CMPT-102 )"

-----------------------------------------------------------------------------
(* One validator session over a courses table that is written meanwhile    *)

NumSessionCourses == 2

SessionCourseIds == {CourseId(k) : k \in 1..NumSessionCourses}

SessionTrees ==
    {None, UnknownNode("permission of the department")}
      \cup {CourseNode(c) : c \in SessionCourseIds}

SessionCatalogs == [SessionCourseIds -> SessionTrees]

SessionQueryIds == SessionCourseIds \cup {AbsentCourse}

InitSession ==
    /\ NoWatchState
    /\ catalog \in SessionCatalogs
    /\ graph = None
    /\ response = None
    /\ transcript = {}
    /\ result = None
    /\ NoParseState

\* rows of the courses table are written while the validator lives
UpdateCatalog(rows) ==
    /\ catalog' = rows
    /\ UNCHANGED <<prereq_string, tree, transcript, result, graph, response, sections, watchers, alerts>>

\* validator.suggest_next_courses([], limit) in the session
SessionSuggest ==
    \E all_courses \in ListsOfSet(DOMAIN catalog) :
        /\ graph' = suggest_next_courses(catalog, all_courses, graph, {}, NumSessionCourses).graph
        /\ \E l \in suggest_next_courses(catalog, all_courses, graph, {}, NumSessionCourses).returns :
             response' = [op |-> "suggest_next", all_courses |-> all_courses,
                          limit |-> NumSessionCourses, value |-> l]
        /\ UNCHANGED <<prereq_string, tree, catalog, transcript, result, sections, watchers, alerts>>

NextSession ==
    \/ \E rows \in SessionCatalogs : UpdateCatalog(rows)
    \/ \E course_id \in SessionQueryIds : GetPrerequisiteChain(course_id)
    \/ \E course_id \in SessionQueryIds : GetCoursesEnabledBy(course_id)
    \/ SessionSuggest

SpecSession == InitSession /\ [][NextSession]_vars

\* the courses the graph g gives for a query, read off its edges
AnswerFrom(g, op, id) ==
    IF id \notin g.nodes THEN {}
    ELSE IF op = "prerequisite_chain" THEN SearchBackward(g, {}, {id}) \ {id}
         ELSE SearchForward(g, {}, {id}) \ {id}

\* C22: once the session holds a graph no step replaces it, and a chain or
\* unlocked-by answer lists what that graph gives, whatever the courses table
\* holds by then.
C22_GraphBuiltOnce ==
    [][graph # None =>
          /\ graph' = graph
          /\ (response' # response /\ response'.op \in {"prerequisite_chain", "unlocked_by"}) =>
                Elems(response'.value) = AnswerFrom(graph, response'.op, response'.course_id)]_vars

-----------------------------------------------------------------------------
(* The graph a validator holds after building it (SpecGraph)               *)

HasTree(c) == c \in DOMAIN catalog /\ catalog[c] # None

IsLeafOf(p, c) == HasTree(c) /\ p \in LeafCourses(catalog[c])

-----------------------------------------------------------------------------
(* Alternatives between parenthesised fragments (SpecParse)                *)

\* C24: for balanced fragments X and Y the text "(X) or (Y)" parses to the Or
\* of the tree of X and the tree of Y.
C24_OrOfParenthesised ==
    \A x, y \in InnerFragments :
        (Parsed /\ prereq_string = Parens(x) \o " or " \o Parens(y)) =>
            tree = OrNode(<<parse(x), parse(y)>>)

-----------------------------------------------------------------------------
(* Eligibility and the missing list of a suggestion (SpecSuggest)          *)

\* C25: in every suggestion, is_eligible is true exactly when
\* missing_prerequisites is empty.
C25_EligibleIffNothingMissing ==
    Suggested =>
        \A k \in 1..Len(response.value) :
            response.value[k].is_eligible <=> response.value[k].missing_prerequisites = <<>>

-----------------------------------------------------------------------------
(* Verdict and missing list of one answer, and of the next (SpecValidate)  *)

\* every AND/OR node has at least one child
RECURSIVE NonEmptyGroups(_)
NonEmptyGroups(t) ==
    IF t.type \in {"AND", "OR"}
    THEN Len(t.children) >= 1 /\ \A k \in 1..Len(t.children) : NonEmptyGroups(t.children[k])
    ELSE TRUE

\* the answer is for a tree of COURSE/AND/OR nodes without an empty group
EvaluatedPlain ==
    /\ Evaluated
    /\ PureTree(result.prerequisite_tree)
    /\ NonEmptyGroups(result.prerequisite_tree)

\* C26: for a tree of COURSE/AND/OR nodes without an empty group the answer is
\* valid exactly when its missing list is empty, and every missing id is a
\* Course leaf of the tree that is not in the transcript.
C26_VerdictMatchesMissing ==
    EvaluatedPlain =>
        /\ result.is_valid <=> result.missing_courses = <<>>
        /\ Elems(result.missing_courses) \subseteq
              LeafCourses(result.prerequisite_tree) \ transcript

\* C26 witness: an AND whose second child, an OR, is the only unsatisfied one
C26_Witness ==
    /\ EvaluatedPlain
    /\ result.prerequisite_tree =
          AndNode(<<CourseNode(CourseId(1)), OrNode(<<CourseNode(CourseId(2))>>)>>)
    /\ transcript = {CourseId(1)}
    /\ ~result.is_valid
    /\ result.missing_courses = <<CourseId(2)>>

\* C27: when the next request is for the same tree and its transcript is the
\* transcript of this answer with the answer's missing courses added, the
\* next answer is valid with an empty missing list.
C27_MissingIsSufficient ==
    [][(/\ EvaluatedPlain
        /\ Evaluated'
        /\ result'.prerequisite_tree = result.prerequisite_tree
        /\ transcript' = transcript \cup Elems(result.missing_courses))
          => (result'.is_valid /\ result'.missing_courses = <<>>)]_vars

\* C27 witness: an AND of three courses with the first and the last missing
C27_Witness ==
    /\ EvaluatedPlain
    /\ result.prerequisite_tree =
          AndNode(<<CourseNode(CourseId(1)), CourseNode(CourseId(2)), CourseNode(CourseId(3))>>)
    /\ transcript = {CourseId(2)}
    /\ result.missing_courses = <<CourseId(1), CourseId(3)>>

-----------------------------------------------------------------------------
(* Watcher requests and seat checks                                        *)

NumSections == 1
NumUsers == 2
MaxWatchers == 3
MaxSeats == 2
MaxWaitlist == 1

SectionIds == 1..NumSections
Emails == {"user" \o Digit(k) \o "@sfu.ca" : k \in 1..NumUsers}

SeatData ==
    [seats_total : 0..MaxSeats, seats_enrolled : 0..MaxSeats,
     waitlist_total : 0..MaxWaitlist, waitlist_enrolled : 0..MaxWaitlist]

InitWatch ==
    /\ sections \in [SectionIds -> {d \in SeatData : d.seats_enrolled <= d.seats_total}]
    /\ watchers = <<>>
    /\ alerts = <<>>
    /\ NoValidateState
    /\ NoGraphState
    /\ NoParseState

WatchUnchanged == UNCHANGED <<prereq_string, tree, catalog, transcript, result, graph, response>>

\* POST /watchers
CreateWatcher(email, section_id) ==
    /\ Len(watchers) < MaxWatchers
    /\ section_id \in DOMAIN sections
    /\ ~ExistingWatcher(watchers, email, section_id)
    /\ watchers' = Append(watchers, [user_email |-> email, section_id |-> section_id,
                                     is_active |-> TRUE])
    /\ UNCHANGED <<sections, alerts>>
    /\ WatchUnchanged

\* DELETE /watchers/{watcher_id}
DeleteWatcher(watcher_id) ==
    /\ watcher_id \in 1..Len(watchers)
    /\ watchers' = [watchers EXCEPT ![watcher_id].is_active = FALSE]
    /\ UNCHANGED <<sections, alerts>>
    /\ WatchUnchanged

\* POST /watchers/{watcher_id}/reactivate
ReactivateWatcher(watcher_id) ==
    /\ watcher_id \in 1..Len(watchers)
    /\ watchers' = [watchers EXCEPT ![watcher_id].is_active = TRUE]
    /\ UNCHANGED <<sections, alerts>>
    /\ WatchUnchanged

\* one run of the scheduled job check_all_watchers
CheckAllWatchers(outcomes) ==
    /\ SectionsToCheck(watchers, 1, {}) # <<>>
    /\ sections' = CheckSections(sections, watchers, SectionsToCheck(watchers, 1, {}),
                                 outcomes, <<>>).sections
    /\ alerts' = CheckSections(sections, watchers, SectionsToCheck(watchers, 1, {}),
                               outcomes, <<>>).alerts
    /\ UNCHANGED watchers
    /\ WatchUnchanged

\* POST /watchers/check/{section_id}
CheckSpecificSection(section_id, outcome) ==
    /\ section_id \in DOMAIN sections
    /\ sections' = [sections EXCEPT ![section_id] =
                      check_section(sections[section_id], watchers,
                                    ActiveWatchersOf(watchers, section_id, 1),
                                    section_id, outcome).section]
    /\ alerts' = check_section(sections[section_id], watchers,
                               ActiveWatchersOf(watchers, section_id, 1),
                               section_id, outcome).alerts
    /\ UNCHANGED watchers
    /\ WatchUnchanged

NextWatch ==
    \/ \E email \in Emails, section_id \in SectionIds : CreateWatcher(email, section_id)
    \/ \E watcher_id \in 1..MaxWatchers : DeleteWatcher(watcher_id)
    \/ \E watcher_id \in 1..MaxWatchers : ReactivateWatcher(watcher_id)
    \/ \E outcomes \in [SectionIds -> SeatData \cup {FetchFailed}] : CheckAllWatchers(outcomes)
    \/ \E section_id \in SectionIds, outcome \in SeatData \cup {FetchFailed} :
          CheckSpecificSection(section_id, outcome)

SpecWatch == InitWatch /\ [][NextWatch]_vars

\* C28: every alert of the last check is for a section that has a seat
\* available after the check.
C28_AlertsOnlyWithSeats ==
    \A k \in 1..Len(alerts) :
        sections[alerts[k].section_id].seats_total
          - sections[alerts[k].section_id].seats_enrolled > 0

\* C29: a check of a section whose seat page could not be fetched leaves the
\* stored counts as they were and sends no alert.
C29_FailedFetchChangesNothing ==
    [][(\/ \E section_id \in SectionIds : CheckSpecificSection(section_id, FetchFailed)
        \/ CheckAllWatchers([section_id \in SectionIds |-> FetchFailed]))
          => (sections' = sections /\ alerts' = <<>>)]_vars

\* C30: no two active watchers have the same user email and section id.
C30_OneActiveWatcherPerPair ==
    \A i, j \in 1..Len(watchers) :
        (/\ i # j
         /\ watchers[i].is_active
         /\ watchers[j].is_active
         /\ watchers[i].user_email = watchers[j].user_email)
            => watchers[i].section_id # watchers[j].section_id

====
